---- MODULE Spec2Model ----
(***************************************************************************)
(* Model of tabular_loader.js: the deterministic pipeline that turns raw   *)
(* row records into train/test arrays (stratified split, median            *)
(* imputation, target winsorization + log1p, K-fold target encoding,       *)
(* robust scaling, one seeded shuffle of the training order).              *)
(*                                                                         *)
(* Conventions.                                                            *)
(*  - A JS number is an exact rational <<n, d>> in lowest terms with       *)
(*    d > 0; NaN is <<0, 0>>.  Floating-point rounding is not modelled.    *)
(*  - A 32-bit unsigned integer (the generator state) is a pair of 16-bit  *)
(*    limbs <<hi, lo>>, value hi * 2^16 + lo.                              *)
(*  - A row is a record of raw strings; a column the row does not have     *)
(*    reads as Undefined.  Row indices are 1-based (JS index + 1).         *)
(*  - Math.log1p is kept symbolic: a finite result is recorded by its      *)
(*    argument (log1p is injective on (-1, oo)).                           *)
(***************************************************************************)
EXTENDS Integers, Sequences, FiniteSets, TLC

VARIABLES rows, schema, trainFrac, tfEmptyThrows, out, prev,
          seed, keys,
          trainBtnDisabled, evalBtnDisabled, saveBtnDisabled, st, models,
          parsing, loading, fitting

\* the state of the page of tabular_app.js: the buttons' disabled flags, the
\* object st, the model objects created, the handlers suspended at an await
ui == <<trainBtnDisabled, evalBtnDisabled, saveBtnDisabled, st, models,
        parsing, loading, fitting>>

vars == <<rows, schema, trainFrac, tfEmptyThrows, out, prev, seed, keys,
          trainBtnDisabled, evalBtnDisabled, saveBtnDisabled, st, models,
          parsing, loading, fitting>>

-----------------------------------------------------------------------------
(* Bounds of the model *)

MaxRows == 3

MaxDraws == 4

MaxSplitRows == 5

\* training runs started on one page
MaxRuns == 2

\* file-selection handlers, and load handlers, suspended at their await at a time
MaxPending == 1

\* cap on the early-stopping counter st.__stall
MaxStall == 2

-----------------------------------------------------------------------------
(* Evaluation helpers *)

\* TLC keeps a function constructor unevaluated and evaluates its body at every
\* application; these give the array (the map) with its elements computed once
Arr(f) == f \o <<>>

MapOf(f) == f @@ <<>>

\* the element of a one-element set: One({e(x) : x \in {v}}) is e(v) with v
\* computed once, the way a JS const is
One(S) == CHOOSE x \in S : TRUE

-----------------------------------------------------------------------------
(* JS numbers as exact rationals *)

RECURSIVE Gcd(_, _)
Gcd(a, b) == IF b = 0 THEN a ELSE Gcd(b, a % b)

Abs(x) == IF x < 0 THEN -x ELSE x

NaN == <<0, 0>>

Norm(n, d) ==
  IF d = 0 THEN NaN
  ELSE One({<<(IF d < 0 THEN -1 ELSE 1) * (n \div g), Abs(d) \div g>> :
              g \in {Gcd(Abs(n), Abs(d))}})

Num(n) == <<n, 1>>

IsFinite(x) == x[2] # 0

Add(x, y) ==
  IF ~IsFinite(x) \/ ~IsFinite(y) THEN NaN
  ELSE One({Norm(x[1] * (y[2] \div g) + y[1] * (x[2] \div g), (x[2] \div g) * y[2]) :
              g \in {Gcd(x[2], y[2])}})

Neg(x) == <<-x[1], x[2]>>

Sub(x, y) == Add(x, Neg(y))

Mul(x, y) ==
  IF ~IsFinite(x) \/ ~IsFinite(y) THEN NaN
  ELSE One({Norm((x[1] \div g[1]) * (y[1] \div g[2]), (x[2] \div g[2]) * (y[2] \div g[1])) :
              g \in {<<Gcd(Abs(x[1]), y[2]), Gcd(Abs(y[1]), x[2])>>}})

\* x / y for y finite and non-zero; NaN if an operand is NaN (and for 0/0)
Div(x, y) ==
  IF ~IsFinite(x) \/ ~IsFinite(y) \/ y[1] = 0 THEN NaN
  ELSE Mul(x, IF y[1] < 0 THEN <<-y[2], -y[1]>> ELSE <<y[2], y[1]>>)

\* x < y on finite numbers (every comparison with NaN is false)
Less(x, y) == IsFinite(x) /\ IsFinite(y) /\ x[1] * y[2] < y[1] * x[2]

AbsNum(x) == <<Abs(x[1]), x[2]>>

\* Math.floor of a finite number
Floor(x) == x[1] \div x[2]

\* Math.max / Math.min: NaN if either argument is NaN
MathMax(x, y) == IF ~IsFinite(x) \/ ~IsFinite(y) THEN NaN ELSE IF Less(x, y) THEN y ELSE x

MathMin(x, y) == IF ~IsFinite(x) \/ ~IsFinite(y) THEN NaN ELSE IF Less(y, x) THEN y ELSE x

\* [...a].sort((x,y)=>x-y) on finite numbers, by insertion: an element goes
\* after the elements that are not greater (the sort is stable)
RECURSIVE InsertNum(_, _)
InsertNum(x, s) ==
  IF s = <<>> THEN <<x>>
  ELSE IF Less(x, s[1]) THEN <<x>> \o s
       ELSE <<s[1]>> \o InsertNum(x, Tail(s))

RECURSIVE SortNum(_)
SortNum(a) ==
  IF a = <<>> THEN <<>>
  ELSE InsertNum(a[Len(a)], SortNum(SubSeq(a, 1, Len(a) - 1)))

RECURSIVE SumNum(_)
SumNum(a) == IF a = <<>> THEN Num(0) ELSE Add(a[1], SumNum(Tail(a)))

\* arr.filter(x => x in S)
RECURSIVE FilterSeq(_, _)
FilterSeq(a, S) ==
  IF a = <<>> THEN <<>>
  ELSE IF a[1] \in S THEN <<a[1]>> \o FilterSeq(Tail(a), S)
       ELSE FilterSeq(Tail(a), S)

Range(a) == {a[k] : k \in 1..Len(a)}

\* order.map(i => arr[i])
Gather(arr, order) == Arr([k \in 1..Len(order) |-> arr[order[k]]])

-----------------------------------------------------------------------------
(* Deterministic sequence generator and seeded shuffle *)

Two16 == 65536

\* a 32-bit unsigned value as limbs
U32(hi, lo) == <<hi, lo>>

\* a non-negative integer below 2^31 as a 32-bit unsigned value
ToU32(n) == U32((n \div Two16) % Two16, n % Two16)

\* rnd(): seed = (seed*1664525 + 1013904223) >>> 0, computed on 16-bit limbs
\* (1664525 = 25 * 2^16 + 26125, 1013904223 = 15470 * 2^16 + 62303); the value
\* returned, seed/4294967296, is represented by the new seed
rnd(s) ==
  One({U32((s[1] * 26125 + s[2] * 25 + 15470 + (low \div Two16)) % Two16, low % Two16) :
         low \in {s[2] * 26125 + 62303}})

\* a[0] - b[0] < 0 on two drawn values
KeyLess(a, b) == a[1] < b[1] \/ (a[1] = b[1] /\ a[2] < b[2])

\* the values n successive rnd() calls return, the closure's seed starting at s:
\* each call advances the seed the call before left
RECURSIVE DrawsFrom(_, _)
DrawsFrom(s, n) ==
  IF n = 0 THEN <<>>
  ELSE One({<<nxt>> \o DrawsFrom(nxt, n - 1) : nxt \in {rnd(s)}})

\* every call advancing from the seed the closure was created with
DrawsRestart(s, n) == Arr([k \in 1..n |-> rnd(s)])

Draws(s, n) == DrawsFrom(s, n)

\* .sort((a,b)=>a[0]-b[0]) on the pairs [key, x], stable: the position of pair j
Rank(k, j) ==
  Cardinality({i \in 1..Len(k) : KeyLess(k[i], k[j]) \/ (k[i] = k[j] /\ i < j)}) + 1

\* arr.map(x=>[rnd(),x]).sort((a,b)=>a[0]-b[0]).map(p=>p[1])
shuffleWithSeed(arr, s) ==
  One({Arr([p \in 1..Len(arr) |-> arr[CHOOSE j \in 1..Len(arr) : r[j] = p]]) :
         r \in {One({Arr([j \in 1..Len(arr) |-> Rank(k, j)]) : k \in {Draws(s, Len(arr))}})}})

-----------------------------------------------------------------------------
(* Raw cells *)

Undefined == "<undefined>"

\* r[h]
Get(r, h) == IF h \in DOMAIN r THEN r[h] ELSE Undefined

\* the decimal strings of the model's alphabet and the numbers they denote
Numerals == ("1" :> 1) @@ ("3" :> 3) @@ ("10" :> 10) @@ ("30" :> 30)

\* Number(v) for a string of the alphabet
ToNumber(v) == IF v \in DOMAIN Numerals THEN Num(Numerals[v]) ELSE NaN

isNumeric(v) ==
  IF v = Undefined \/ v = "" \/ v = "?" THEN FALSE ELSE IsFinite(ToNumber(v))

\* isNumeric(v) ? Number(v) : NaN
NumOrNaN(v) == IF isNumeric(v) THEN ToNumber(v) ELSE NaN

\* (v && v !== '?') ? v : '__NA__'
CatKey(v) == IF v = Undefined \/ v = "" \/ v = "?" THEN "__NA__" ELSE v

-----------------------------------------------------------------------------
(* Helpers of the loader *)

\* the median as robustStats and the imputer take it, on a sorted non-empty array
MedianSorted(s) ==
  IF Len(s) % 2 = 1 THEN s[(Len(s) \div 2) + 1]
  ELSE Div(Add(s[Len(s) \div 2], s[(Len(s) \div 2) + 1]), Num(2))

\* (1.4826*mad) || 1
ScaleOf(mad) ==
  One({IF ~IsFinite(v) \/ v[1] = 0 THEN Num(1) ELSE v : v \in {Mul(<<7413, 5000>>, mad)}})

\* sorted absolute deviations from the median
AbsDevs(arr, median) == SortNum(Arr([k \in 1..Len(arr) |-> AbsNum(Sub(arr[k], median))]))

robustStats(arr) ==
  One({[median |-> median, scale |-> ScaleOf(MedianSorted(AbsDevs(arr, median)))] :
         median \in {MedianSorted(SortNum(arr))}})

\* s[k] + d*((s[k+1] ?? s[k]) - s[k]) on the sorted array s, with p = (s.length-1)*q,
\* k = floor(p), d = p-k; an index outside the array reads undefined and the sum
\* is then NaN
QuantileSorted(s, p) ==
  LET k == Floor(p)
      at(j) == IF j + 1 \in 1..Len(s) THEN s[j + 1] ELSE NaN
      nxt == IF k + 2 \in 1..Len(s) THEN at(k + 1) ELSE at(k)
  IN  Add(at(k), Mul(Sub(p, Num(k)), Sub(nxt, at(k))))

quantile(a, q) ==
  One({QuantileSorted(s, Mul(Num(Len(s) - 1), q)) : s \in {SortNum(a)}})

clip(v, lo, hi) == MathMin(hi, MathMax(lo, v))

\* Math.floor(s.length*frac), without the floor of one row
CutFloor(n, frac) == Floor(Mul(Num(n), frac))

\* Math.max(1, Math.floor(s.length*frac))
Cut(n, frac) ==
  One({IF f < 1 THEN 1 ELSE f : f \in {Floor(Mul(Num(n), frac))}})

\* the Map's keys in insertion order: the keys of rows 1..n by first appearance
RECURSIVE GroupKeys(_, _, _)
GroupKeys(rs, key, n) ==
  IF n = 0 THEN <<>>
  ELSE One({IF CatKey(Get(rs[n], key)) \in Range(before) THEN before
            ELSE Append(before, CatKey(Get(rs[n], key))) :
              before \in {GroupKeys(rs, key, n - 1)}})

\* groups.get(k): the indices of the rows with key k, ascending
GroupIdxs(rs, key, k) ==
  FilterSeq(Arr([i \in 1..Len(rs) |-> i]), {i \in 1..Len(rs) : CatKey(Get(rs[i], key)) = k})

\* one group's shuffled indices cut into train and test
SplitGroup(s, frac) ==
  One({[train |-> SubSeq(s, 1, cut), test |-> SubSeq(s, cut + 1, Len(s))] :
         cut \in {Cut(Len(s), frac)}})

\* the loop over groups.values(): train and test collect the groups' parts in
\* the order of the groups
RECURSIVE SplitGroups(_, _, _, _, _)
SplitGroups(rs, frac, sd, key, gk) ==
  IF gk = <<>> THEN [train |-> <<>>, test |-> <<>>]
  ELSE One({[train |-> g[1].train \o g[2].train, test |-> g[1].test \o g[2].test] :
              g \in {<<SplitGroup(shuffleWithSeed(GroupIdxs(rs, key, gk[1]), sd), frac),
                       SplitGroups(rs, frac, sd, key, Tail(gk))>>}})

stratifiedSplit(rs, frac, sd, key) ==
  SplitGroups(rs, frac, sd, key, GroupKeys(rs, key, Len(rs)))

-----------------------------------------------------------------------------
(* buildTabularTensors *)

encCols == <<"make", "body-style", "drive-wheels", "engine-type", "fuel-system",
             "aspiration", "num-of-doors">>

K == 5

Alpha == 10

DefaultSeeds == [split |-> 42, kfold |-> 1337, trainOrder |-> 777]

\* schema.__seeds ?? { split:42, kfold:1337, trainOrder:777 }
SeedsOf(sch) == IF "__seeds" \in DOMAIN sch THEN sch["__seeds"] ELSE DefaultSeeds

smoothed(sum, cnt, base, alpha) ==
  Div(Add(sum, Mul(Num(alpha), base)), Num(cnt + alpha))

\* Math.log1p(v), symbolic: finite exactly when v is finite and v > -1
Log1p(v) ==
  IF IsFinite(v) /\ Less(Num(-1), v) THEN [fin |-> TRUE, log1pOf |-> v]
  ELSE [fin |-> FALSE, log1pOf |-> NaN]

\* the median of the parseable values of a column over all rows, 0 if there are none
ColumnMedian(col) ==
  One({IF Len(vals) > 0 THEN MedianSorted(vals) ELSE Num(0) :
         vals \in {SortNum(FilterSeq(col, {x \in Range(col) : IsFinite(x)}))}})

\* folds: shuffle the training indices and deal them round-robin (s.forEach((i,k)=>
\* arr[k%K].push(i))); foldOf maps a training index to its fold
FoldOf(trIdx, sd) ==
  One({MapOf([i \in Range(trIdx) |-> ((CHOOSE k \in 1..Len(s) : s[k] = i) - 1) % K]) :
         s \in {shuffleWithSeed(trIdx, sd)}})

\* the smoothed mean of the raw targets yv of one category
SmoothedOf(yv, globalMean) == smoothed(SumNum(yv), Len(yv), globalMean, Alpha)

\* one encoding map: per category the smoothed mean of the finite raw targets of
\* the rows idxs, and the __UNK__ entry
FitMap(rs, idxs, c, pricesRaw, globalMean) ==
  One({MapOf([k \in {CatKey(Get(rs[i], c)) : i \in Range(fit)} \cup {"__UNK__"} |->
              IF \E i \in Range(fit) : CatKey(Get(rs[i], c)) = k
              THEN SmoothedOf(Gather(pricesRaw,
                     FilterSeq(fit, {i \in Range(fit) : CatKey(Get(rs[i], c)) = k})), globalMean)
              ELSE globalMean]) :
         fit \in {FilterSeq(idxs, {i \in Range(idxs) : IsFinite(pricesRaw[i])})}})

\* m[key] ?? m['__UNK__']
Lookup(m, key) == IF key \in DOMAIN m THEN m[key] ELSE m["__UNK__"]

\* every row, training rows included, reading the full-training map
encValueFull(rs, foldOf, encMapsByFold, fullMaps, i, col) ==
  Lookup(fullMaps[col], CatKey(Get(rs[i], col)))

encValue(rs, foldOf, encMapsByFold, fullMaps, i, col) ==
  IF i \in DOMAIN foldOf
  THEN Lookup(encMapsByFold[col][foldOf[i]], CatKey(Get(rs[i], col)))
  ELSE Lookup(fullMaps[col], CatKey(Get(rs[i], col)))

\* the full-length code arrays, not gathered by the partition's order
XcatsFull(Xcats, order) == Xcats

\* Xcats.map(col => order.map(i => col[i]))
XcatsPartition(Xcats, order) == Arr([c \in 1..Len(Xcats) |-> Gather(Xcats[c], order)])

\* the width published by growing schema.numCols as well
PublishIntoNumCols(sch, width) ==
  ("numInputDim" :> width) @@ [sch EXCEPT !.numCols = Append(@, "make")]

\* the width published without the appended encoded columns
PublishBaseWidth(sch, width) == ("numInputDim" :> Len(sch.numCols)) @@ sch

\* schema.numInputDim = width
PublishWidth(sch, width) == ("numInputDim" :> width) @@ sch

\* tf.tensor2d(arr) called without a shape on an array of rows: whether the
\* library rejects an empty array is a property of the library (emptyThrows)
Tensor2dThrows(arr, emptyThrows) == emptyThrows /\ Len(arr) = 0

\* buildTabularModel: schema.numInputDim ?? schema.numCols.length
numDim(sch) == IF "numInputDim" \in DOMAIN sch THEN sch.numInputDim ELSE Len(sch.numCols)

\* The function body in stages.  A stage takes the record L of the arguments and
\* of the locals computed so far and adds the locals it computes from them.

\* const seeds; 1) stratified split
Stage1(L) ==
  One({[seeds |-> L.seeds, trIdx |-> sp.train, teIdx |-> sp.test] @@ L :
         sp \in {stratifiedSplit(L.rows, L.trainFrac, ToU32(L.seeds.split), "make")}})

\* 2) rawNum; 3) categorical indices; 4) pricesRaw
Stage2(L) ==
  [rawNum |-> Arr([i \in 1..Len(L.rows) |-> Arr([j \in 1..Len(L.schema.numCols) |->
                 NumOrNaN(Get(L.rows[i], L.schema.numCols[j]))])]),
   Xcats |-> Arr([c \in 1..Len(L.schema.catCols) |-> Arr([i \in 1..Len(L.rows) |->
                 IF CatKey(Get(L.rows[i], L.schema.catCols[c]))
                      \in DOMAIN L.schema.catMaps[L.schema.catCols[c]].map
                 THEN L.schema.catMaps[L.schema.catCols[c]].map[
                        CatKey(Get(L.rows[i], L.schema.catCols[c]))]
                 ELSE 0])]),
   pricesRaw |-> Arr([i \in 1..Len(L.rows) |-> NumOrNaN(Get(L.rows[i], "price"))])] @@ L

\* 2) medians; 4) trainPrices; 5) folds, foldOf
Stage3(L) ==
  [medians |-> Arr([j \in 1..Len(L.schema.numCols) |->
                 ColumnMedian(Arr([i \in 1..Len(L.rows) |-> L.rawNum[i][j]]))]),
   trainPrices |-> FilterSeq(Gather(L.pricesRaw, L.trIdx),
                             {x \in Range(L.pricesRaw) : IsFinite(x)}),
   foldOf |-> FoldOf(L.trIdx, ToU32(L.seeds.kfold))] @@ L

\* 2) Xnum; 4) pLo, pHi; 5) globalMean, trF for every fold
Stage4(L) ==
  [Xnum |-> Arr([i \in 1..Len(L.rows) |-> Arr([j \in 1..Len(L.schema.numCols) |->
                 IF IsFinite(L.rawNum[i][j]) THEN L.rawNum[i][j] ELSE L.medians[j]])]),
   pLo |-> quantile(L.trainPrices, <<1, 20>>),
   pHi |-> quantile(L.trainPrices, <<19, 20>>),
   globalMean |-> Div(SumNum(L.trainPrices),
                      Num(IF Len(L.trainPrices) < 1 THEN 1 ELSE Len(L.trainPrices))),
   trF |-> MapOf([f \in 0..(K - 1) |->
                 FilterSeq(L.trIdx, {i \in Range(L.trIdx) : L.foldOf[i] # f})])] @@ L

\* 4) pricesClipped; 5) encMapsByFold, fullMaps
Stage5(L) ==
  [pricesClipped |-> Arr([i \in 1..Len(L.rows) |->
                 IF IsFinite(L.pricesRaw[i]) THEN clip(L.pricesRaw[i], L.pLo, L.pHi)
                 ELSE NaN]),
   encMapsByFold |-> MapOf([c \in Range(encCols) |-> MapOf([f \in 0..(K - 1) |->
                 FitMap(L.rows, L.trF[f], c, L.pricesRaw, L.globalMean)])]),
   fullMaps |-> MapOf([c \in Range(encCols) |->
                 FitMap(L.rows, L.trIdx, c, L.pricesRaw, L.globalMean)])] @@ L

\* 4) yLog; 6) XnumPlus
Stage6(L) ==
  [yLog |-> Arr([i \in 1..Len(L.rows) |-> Log1p(L.pricesClipped[i])]),
   XnumPlus |-> Arr([i \in 1..Len(L.rows) |-> L.Xnum[i] \o [e \in 1..Len(encCols) |->
                 encValue(L.rows, L.foldOf, L.encMapsByFold, L.fullMaps, i, encCols[e])]])] @@ L

\* schema.numInputDim; 7) stats; 8) valid, tr, te
Stage7(L) ==
  [schema |-> PublishWidth(L.schema, Len(L.XnumPlus[1])),
   stats |-> Arr([j \in 1..Len(L.XnumPlus[1]) |->
                 robustStats(Arr([t \in 1..Len(L.trIdx) |-> L.XnumPlus[L.trIdx[t]][j]]))]),
   tr |-> FilterSeq(L.trIdx, {i \in 1..Len(L.rows) : L.yLog[i].fin}),
   te |-> FilterSeq(L.teIdx, {i \in 1..Len(L.rows) : L.yLog[i].fin})] @@ L

\* 7) XnumScaled; 8) trainOrder
Stage8(L) ==
  [XnumScaled |-> Arr([i \in 1..Len(L.rows) |-> Arr([j \in 1..Len(L.stats) |->
                 Div(Sub(L.XnumPlus[i][j], L.stats[j].median), L.stats[j].scale)])]),
   trainOrder |-> shuffleWithSeed(L.tr, ToU32(L.seeds.trainOrder))] @@ L

\* the train arrays in the fixed order, the test arrays in the order of te
Stage9(L) ==
  [XnumTrainArr |-> Gather(L.XnumScaled, L.trainOrder),
   yTrainArr |-> Gather(L.yLog, L.trainOrder),
   XcatsTrainArrs |-> XcatsPartition(L.Xcats, L.trainOrder),
   XnumTestArr |-> Gather(L.XnumScaled, L.te),
   yTestArr |-> Gather(L.yLog, L.te),
   XcatsTestArrs |-> XcatsPartition(L.Xcats, L.te)] @@ L

\* the tensors and the object returned (status "ok"), or the exception of the first
\* tf.tensor2d call that throws (status "error"); the locals stay in the record
Return(L) ==
  IF Tensor2dThrows(L.XnumTrainArr, L.tfEmptyThrows)
       \/ Tensor2dThrows(L.XnumTestArr, L.tfEmptyThrows)
  THEN [status |-> "error", Xtrain |-> <<>>, Xtest |-> <<>>, ytrain |-> <<>>,
        ytest |-> <<>>, numStats |-> <<>>] @@ L
  ELSE [status |-> "ok",
        Xtrain |-> <<L.XnumTrainArr>> \o L.XcatsTrainArrs,
        Xtest |-> <<L.XnumTestArr>> \o L.XcatsTestArrs,
        ytrain |-> L.yTrainArr, ytest |-> L.yTestArr, numStats |-> L.stats] @@ L

buildTabularTensors(rs, sch, frac, emptyThrows) ==
  One({Return(L9) : L9 \in {Stage9(L8) : L8 \in {Stage8(L7) : L7 \in {Stage7(L6) :
       L6 \in {Stage6(L5) : L5 \in {Stage5(L4) : L4 \in {Stage4(L3) : L3 \in {Stage3(L2) :
       L2 \in {Stage2(L1) : L1 \in {Stage1(
         [rows |-> rs, schema |-> sch, trainFrac |-> frac, tfEmptyThrows |-> emptyThrows,
          seeds |-> SeedsOf(sch)])}}}}}}}}}})

-----------------------------------------------------------------------------
(* Inputs *)

\* sequences of length 1..n over S
RECURSIVE SeqsUpTo(_, _)
SeqsUpTo(S, n) ==
  IF n = 0 THEN {}
  ELSE LET shorter == SeqsUpTo(S, n - 1)
       IN  {<<x>> : x \in S} \cup shorter \cup
           {Append(q, x) : q \in {t \in shorter : Len(t) = n - 1}, x \in S}

Makes == {"A", "B"}

\* (price, hp) cells: both parseable, hp unparseable, price unparseable
Cells == {<<"10", "1">>, <<"30", "?">>, <<"?", "3">>}

\* rows of a file with the columns make, price, hp; of one without make; of one
\* without price
FullRows == {[make |-> m, price |-> c[1], hp |-> c[2]] : m \in Makes, c \in Cells}

NoMakeRows == {[price |-> c[1], hp |-> c[2]] : c \in Cells}

NoPriceRows == {[make |-> m, hp |-> h] : m \in Makes, h \in {"1", "?"}}

Datasets ==
  SeqsUpTo(FullRows, MaxRows) \cup SeqsUpTo(NoMakeRows, MaxRows)
    \cup SeqsUpTo(NoPriceRows, MaxRows)

\* a schema as analyzeColumns returns it for a file with the categories A and B
BaseSchema ==
  [numCols |-> <<"hp">>, catCols |-> <<"make">>,
   catMaps |-> [make |-> [map |-> ("__UNK__" :> 0) @@ ("A" :> 1) @@ ("B" :> 2), size |-> 3]]]

\* the loader's defaults, or seeds passed down through the schema
Schemas ==
  {BaseSchema,
   [h \in {"__seeds"} |-> [split |-> 7, kfold |-> 11, trainOrder |-> 99]] @@ BaseSchema}

Fracs == {<<4, 5>>, <<1, 2>>}

NoOut == [status |-> "none"]

NoSeed == U32(0, 0)

\* null, and the object st as the script creates it (batch and epochs are fixed)
Null == [null |-> TRUE]

NoModel == 0

StInit == [model |-> NoModel, schema |-> Null, tensors |-> Null]

\* the page with no handler running and no training run started
UiIdle ==
  /\ trainBtnDisabled = TRUE /\ evalBtnDisabled = TRUE /\ saveBtnDisabled = TRUE
  /\ st = StInit
  /\ models = <<>>
  /\ parsing = 0 /\ loading = 0 /\ fitting = {}

-----------------------------------------------------------------------------
(* Calls of buildTabularTensors on one schema object *)

Init ==
  /\ rows \in Datasets
  /\ schema \in Schemas
  /\ trainFrac \in Fracs
  /\ tfEmptyThrows \in BOOLEAN
  /\ out = NoOut
  /\ prev = NoOut
  /\ seed = NoSeed
  /\ keys = <<>>
  /\ UiIdle

Build ==
  /\ out' = buildTabularTensors(rows, schema, trainFrac, tfEmptyThrows)
  /\ schema' = out'.schema
  /\ prev' = out
  /\ UNCHANGED <<rows, trainFrac, tfEmptyThrows, seed, keys>>
  /\ UNCHANGED ui

Next == Build

Spec == Init /\ [][Next]_vars

-----------------------------------------------------------------------------
(* stratifiedSplit on its own: rows with a make column only *)

SplitRows == {[make |-> m] : m \in {"A", "B", "?"}}

SplitFracs == {<<1, 10>>, <<1, 2>>, <<4, 5>>, <<1, 1>>}

SplitSeeds == {ToU32(42), ToU32(7)}

InitSplit ==
  /\ rows \in SeqsUpTo(SplitRows, MaxSplitRows)
  /\ trainFrac \in SplitFracs
  /\ seed \in SplitSeeds
  /\ schema = BaseSchema
  /\ tfEmptyThrows = FALSE
  /\ out = NoOut
  /\ prev = NoOut
  /\ keys = <<>>
  /\ UiIdle

Split ==
  /\ out = NoOut
  /\ out' = [status |-> "split"] @@ stratifiedSplit(rows, trainFrac, seed, "make")
  /\ UNCHANGED <<rows, schema, trainFrac, tfEmptyThrows, prev, seed, keys>>
  /\ UNCHANGED ui

NextSplit == Split

SpecSplit == InitSplit /\ [][NextSplit]_vars

-----------------------------------------------------------------------------
(* The keys one shuffleWithSeed call draws *)

SeedStates ==
  {ToU32(n) : n \in 0..20} \cup {ToU32(42), ToU32(777), ToU32(1337), ToU32(2000)}
    \cup {U32(16537, 45441), U32(32768, 0), U32(65535, 65535), U32(1, 0), U32(40000, 12345)}

InitDraw ==
  /\ seed \in SeedStates
  /\ keys = <<>>
  /\ rows = <<>>
  /\ schema = BaseSchema
  /\ trainFrac = <<4, 5>>
  /\ tfEmptyThrows = FALSE
  /\ out = NoOut
  /\ prev = NoOut
  /\ UiIdle

\* arr.map(x=>[rnd(),x]) on an array of n elements
DrawKeys ==
  /\ keys = <<>>
  /\ \E n \in 1..MaxDraws : keys' = Draws(seed, n)
  /\ UNCHANGED <<rows, schema, trainFrac, tfEmptyThrows, out, prev, seed>>
  /\ UNCHANGED ui

NextDraw == DrawKeys

SpecDraw == InitDraw /\ [][NextDraw]_vars

-----------------------------------------------------------------------------
(* The page of tabular_app.js: the event handlers, a step per run to its next
   await or to its end.  Text written to the page (status, progress, metrics,
   the scatter plot) is output no handler reads and is left out. *)

\* the files a user selects: one that gives both partitions rows, one whose two
\* makes are singletons (an empty test partition), one without the price column
UiFiles ==
  {<<[make |-> "A", price |-> "10", hp |-> "1"], [make |-> "A", price |-> "30", hp |-> "3"],
     [make |-> "B", price |-> "10", hp |-> "1"]>>,
   <<[make |-> "A", price |-> "10", hp |-> "1"], [make |-> "B", price |-> "30", hp |-> "3"]>>,
   <<[make |-> "A", hp |-> "1"], [make |-> "B", hp |-> "3"]>>}

\* export const SEEDS
SEEDS == [split |-> 42, kfold |-> 1337, initBase |-> 2000, trainOrder |-> 777]

\* analyzeColumns(rows, 'price') on these files, then schema.__seeds = { ...SEEDS }
UiSchema == [h \in {"__seeds"} |-> SEEDS] @@ BaseSchema

\* parseCarsCSV: if (!('price' in col)) throw
ParseThrows(f) == \A i \in 1..Len(f) : "price" \notin DOMAIN f[i]

\* the object buildTabularTensors returns
Tensors(o) ==
  [Xtrain |-> o.Xtrain, Xtest |-> o.Xtest, ytrain |-> o.ytrain, ytest |-> o.ytest,
   numStats |-> o.numStats]

\* the model tf.loadLayersModel resolves to
LoadedModel == -1

\* the model object the next Train click builds
NextModel == Cardinality(DOMAIN models \ {LoadedModel}) + 1

\* validation losses an epoch reports
ValLosses == {1, 2}

\* ReduceLROnPlateau (patience=8) + EarlyStopping (patience=20)
PatienceLR == 8

PatienceStop == 20

InitUI ==
  /\ trainBtnDisabled \in BOOLEAN /\ evalBtnDisabled \in BOOLEAN
  /\ saveBtnDisabled \in BOOLEAN
  /\ st = StInit
  /\ models = <<>>
  /\ parsing = 0 /\ loading = 0 /\ fitting = {}
  /\ tfEmptyThrows \in BOOLEAN
  /\ rows = <<>> /\ schema = BaseSchema /\ trainFrac = <<4, 5>>
  /\ out = NoOut /\ prev = NoOut /\ seed = NoSeed /\ keys = <<>>

loader == <<rows, schema, trainFrac, tfEmptyThrows, out, prev, seed, keys>>

\* fileInput change with a file chosen, up to await parseCarsCSV(f); without a
\* file the handler returns at once
FileChange ==
  /\ parsing < MaxPending
  /\ parsing' = parsing + 1
  /\ UNCHANGED <<trainBtnDisabled, evalBtnDisabled, saveBtnDisabled, st, models,
                 loading, fitting>>
  /\ UNCHANGED loader

\* fileInput change, from the await to the end: on success st.schema and st.tensors
\* are set and the Train button is enabled; an exception is caught
FileParsed(f) ==
  /\ parsing > 0
  /\ parsing' = parsing - 1
  /\ IF ParseThrows(f)
     THEN UNCHANGED <<st, trainBtnDisabled>>
     ELSE \E o \in {buildTabularTensors(f, UiSchema, <<4, 5>>, tfEmptyThrows)} :
            IF o.status = "ok"
            THEN /\ st' = [st EXCEPT !.schema = o.schema, !.tensors = Tensors(o)]
                 /\ trainBtnDisabled' = FALSE
            ELSE UNCHANGED <<st, trainBtnDisabled>>
  /\ UNCHANGED <<evalBtnDisabled, saveBtnDisabled, models, loading, fitting>>
  /\ UNCHANGED loader

\* trainBtn click, up to await fitModel(...); buildTabularModel throws on a null
\* schema, after the button was disabled
TrainClick ==
  /\ ~trainBtnDisabled
  /\ st.schema # Null => NextModel <= MaxRuns
  /\ trainBtnDisabled' = TRUE
  /\ IF st.schema = Null
     THEN UNCHANGED <<st, models, fitting>>
     ELSE /\ models' = (NextModel :> [inputDim |-> numDim(st.schema), halvings |-> 0,
                                      stopTraining |-> FALSE]) @@ models
          /\ st' = ("__best" :> <<>>) @@ ("__stall" :> 0) @@ [st EXCEPT !.model = NextModel]
          /\ fitting' = fitting \cup {NextModel}
  /\ UNCHANGED <<evalBtnDisabled, saveBtnDisabled, parsing, loading>>
  /\ UNCHANGED loader

\* the counter after an epoch with validation loss v: st.__best is <<>> for Infinity
StallAfter(s, v) ==
  IF s["__best"] = <<>> \/ v < s["__best"][1] THEN 0 ELSE s["__stall"] + 1

\* onEpoch of the run r with logs.val_loss = v
Epoch(r, v) ==
  /\ r \in fitting
  /\ StallAfter(st, v) <= MaxStall
  /\ st' = IF StallAfter(st, v) = 0
           THEN [st EXCEPT !["__best"] = <<v>>, !["__stall"] = 0]
           ELSE [st EXCEPT !["__stall"] = @ + 1]
  /\ models' = [models EXCEPT ![st.model] =
                  [@ EXCEPT !.halvings = IF StallAfter(st, v) = PatienceLR THEN @ + 1 ELSE @,
                            !.stopTraining = @ \/ StallAfter(st, v) > PatienceStop]]
  /\ UNCHANGED <<trainBtnDisabled, evalBtnDisabled, saveBtnDisabled, parsing, loading,
                 fitting>>
  /\ UNCHANGED loader

\* trainBtn click, after fitModel of the run r resolved
FitResolved(r) ==
  /\ r \in fitting
  /\ fitting' = fitting \ {r}
  /\ evalBtnDisabled' = FALSE
  /\ saveBtnDisabled' = FALSE
  /\ UNCHANGED <<trainBtnDisabled, st, models, parsing, loading>>
  /\ UNCHANGED loader

\* evalBtn click: reads st, writes the page
EvalClick ==
  /\ ~evalBtnDisabled
  /\ UNCHANGED vars

\* saveBtn click: if (!st.model) return; the model is downloaded
SaveClick ==
  /\ ~saveBtnDisabled
  /\ UNCHANGED vars

\* loadBtn click, up to await tf.loadLayersModel(...)
LoadClick ==
  /\ loading < MaxPending
  /\ loading' = loading + 1
  /\ UNCHANGED <<trainBtnDisabled, evalBtnDisabled, saveBtnDisabled, st, models,
                 parsing, fitting>>
  /\ UNCHANGED loader

\* loadBtn click, after the model was loaded
LoadResolved ==
  /\ loading > 0
  /\ loading' = loading - 1
  /\ st' = [st EXCEPT !.model = LoadedModel]
  /\ models' = (LoadedModel :> [inputDim |-> 0, halvings |-> 0, stopTraining |-> FALSE])
                 @@ models
  /\ evalBtnDisabled' = FALSE
  /\ saveBtnDisabled' = FALSE
  /\ UNCHANGED <<trainBtnDisabled, parsing, fitting>>
  /\ UNCHANGED loader

\* loadBtn click, after the load failed (catch)
LoadRejected ==
  /\ loading > 0
  /\ loading' = loading - 1
  /\ UNCHANGED <<trainBtnDisabled, evalBtnDisabled, saveBtnDisabled, st, models,
                 parsing, fitting>>
  /\ UNCHANGED loader

NextUI ==
  \/ FileChange
  \/ \E f \in UiFiles : FileParsed(f)
  \/ TrainClick
  \/ \E r \in 1..MaxRuns : \E v \in ValLosses : Epoch(r, v)
  \/ \E r \in 1..MaxRuns : FitResolved(r)
  \/ EvalClick
  \/ SaveClick
  \/ LoadClick
  \/ LoadResolved
  \/ LoadRejected

SpecUI == InitUI /\ [][NextUI]_vars

-----------------------------------------------------------------------------
(* Claims *)

\* the number of final numeric columns that come from the schema
BaseWidth == Len(BaseSchema.numCols)

\* the rows with row j's raw target replaced by the numeral p
WithPrice(rs, j, p) == [rs EXCEPT ![j] = [@ EXCEPT !.price = p]]

\* the encoded (appended) columns of row i before scaling
EncodedOf(o, i) == SubSeq(o.XnumPlus[i], BaseWidth + 1, Len(o.XnumPlus[i]))

\* C1: out-of-fold isolation.  For every training row i of fold f and every
\* target-encoded column, the encoded value of i is the same for any input that
\* differs only in the finite raw target of a row of fold f (i itself included).
C1_OutOfFoldIsolation ==
  out.status # "none" =>
    \A i \in DOMAIN out.foldOf : \A j \in DOMAIN out.foldOf :
      (out.foldOf[j] = out.foldOf[i] /\ isNumeric(Get(rows[j], "price"))) =>
        \A p \in DOMAIN Numerals :
          EncodedOf(buildTabularTensors(WithPrice(rows, j, p), schema, trainFrac,
                                        tfEmptyThrows), i) = EncodedOf(out, i)

\* the rows a CSV with the same columns as r can hold
RowsLike(r) ==
  {q \in [DOMAIN r -> {"A", "B", "?", "1", "3", "10", "30"}] :
     /\ "make" \in DOMAIN r => q.make \in {"A", "B", "?"}
     /\ "price" \in DOMAIN r => q.price \in {"?", "1", "3", "10", "30"}
     /\ "hp" \in DOMAIN r => q.hp \in {"?", "1", "3", "10", "30"}}

\* C2: leakage invariant.  Two inputs with the same split that agree on every cell
\* of every training row have the same winsorization bounds, the same per-fold and
\* full encoding maps and the same returned scaling stats.
C2_NoTestLeakage ==
  out.status = "ok" =>
    \A t \in Range(out.teIdx) : \A q \in RowsLike(rows[t]) :
      \A o2 \in {buildTabularTensors([rows EXCEPT ![t] = q], schema, trainFrac,
                                     tfEmptyThrows)} :
        (o2.trIdx = out.trIdx /\ o2.teIdx = out.teIdx /\ o2.status = "ok") =>
          /\ o2.pLo = out.pLo /\ o2.pHi = out.pHi
          /\ o2.encMapsByFold = out.encMapsByFold
          /\ o2.fullMaps = out.fullMaps
          /\ o2.numStats = out.numStats

\* the distinct stratification keys of the rows and the indices of one group
KeysOf(rs) == {CatKey(Get(rs[i], "make")) : i \in 1..Len(rs)}

GroupOf(rs, k) == {i \in 1..Len(rs) : CatKey(Get(rs[i], "make")) = k}

\* max(1, floor(size * f)) for f = num/den, stated by its defining inequalities
ExpectedTrain(size, f) ==
  IF size * f[1] < f[2] THEN 1
  ELSE CHOOSE c \in 1..size : c * f[2] <= size * f[1] /\ (c + 1) * f[2] > size * f[1]

\* C3: stratifiedSplit puts max(1, floor(groupSize * f)) >= 1 indices of every
\* group in train and the rest in test; train and test are disjoint, hold no index
\* twice and together hold every row index.
C3_PartitionCoverage ==
  out.status = "split" =>
    /\ \A k \in KeysOf(rows) :
         /\ Cardinality(GroupOf(rows, k) \cap Range(out.train))
              = ExpectedTrain(Cardinality(GroupOf(rows, k)), trainFrac)
         /\ Cardinality(GroupOf(rows, k) \cap Range(out.train)) >= 1
         /\ Cardinality(GroupOf(rows, k) \cap Range(out.train))
              + Cardinality(GroupOf(rows, k) \cap Range(out.test))
              = Cardinality(GroupOf(rows, k))
         /\ Cardinality(GroupOf(rows, k)) = 1 => GroupOf(rows, k) \cap Range(out.test) = {}
    /\ Range(out.train) \cap Range(out.test) = {}
    /\ Range(out.train) \cup Range(out.test) = 1..Len(rows)
    /\ Len(out.train) + Len(out.test) = Len(rows)

\* a split of two groups, one a singleton, one cut into train and test
C3_Witness ==
  /\ out.status = "split"
  /\ Cardinality(KeysOf(rows)) >= 2
  /\ \E k \in KeysOf(rows) : Cardinality(GroupOf(rows, k)) = 1
  /\ Len(out.test) >= 2

\* C4: a row is in an output partition, the one the splitter assigned it to, exactly
\* if its raw target parses to a finite number; dropping rows raises no error (an
\* error is raised only if the splitter's own test partition is empty); every
\* output target is finite.
C4_DropRule ==
  out.status # "none" =>
    /\ out.status = "error" => out.teIdx = <<>>
    /\ out.status = "ok" =>
         /\ \A i \in 1..Len(rows) :
              /\ i \in Range(out.trainOrder) <=>
                   (i \in Range(out.trIdx) /\ isNumeric(Get(rows[i], "price")))
              /\ i \in Range(out.te) <=>
                   (i \in Range(out.teIdx) /\ isNumeric(Get(rows[i], "price")))
         /\ \A k \in 1..Len(out.ytrain) : out.ytrain[k].fin
         /\ \A k \in 1..Len(out.ytest) : out.ytest[k].fin

\* C5: in each partition the numeric matrix, the target vector and every code
\* array have the same number of rows.
C5_RowCounts ==
  out.status = "ok" =>
    /\ \A c \in 1..Len(out.Xtrain) : Len(out.Xtrain[c]) = Len(out.ytrain)
    /\ \A c \in 1..Len(out.Xtest) : Len(out.Xtest[c]) = Len(out.ytest)
    /\ Len(out.Xtrain) = 1 + Len(schema.catCols)
    /\ Len(out.Xtest) = 1 + Len(schema.catCols)

\* both partitions non-empty after a training row was dropped
C5_Witness ==
  /\ out.status = "ok"
  /\ Len(out.ytrain) >= 1 /\ Len(out.ytest) >= 1
  /\ Len(out.ytrain) < Len(out.trIdx)

\* C6: determinism.  A second execution on the same rows, seeds and fraction, on
\* the schema object the first one wrote to, gives the same index assignment, the
\* same row orders, the same arrays and the same scaling stats (or fails alike).
C6_Determinism ==
  prev.status # "none" =>
    /\ out.status = prev.status
    /\ out.trIdx = prev.trIdx /\ out.teIdx = prev.teIdx
    /\ out.trainOrder = prev.trainOrder /\ out.te = prev.te
    /\ out.Xtrain = prev.Xtrain /\ out.Xtest = prev.Xtest
    /\ out.ytrain = prev.ytrain /\ out.ytest = prev.ytest
    /\ out.numStats = prev.numStats

\* a second execution, on a schema that holds numInputDim and its own seeds, that
\* returned permuted training rows and test rows
C6_Witness ==
  /\ prev.status = "ok" /\ out.status = "ok"
  /\ "numInputDim" \in DOMAIN prev.schema
  /\ "__seeds" \in DOMAIN schema
  /\ Len(out.trainOrder) >= 2 /\ out.trainOrder # out.tr
  /\ Len(out.te) >= 1

\* (state * 1664525 + 1013904223) mod 2^32 by long multiplication on bytes, least
\* significant first: 1664525 = 0x19660D and 1013904223 = 0x3C6EF35F
Bytes(s) == <<s[2] % 256, s[2] \div 256, s[1] % 256, s[1] \div 256>>

Col1(d) == d[1] * 13 + 95

Col2(d) == d[2] * 13 + d[1] * 102 + 243 + (Col1(d) \div 256)

Col3(d) == d[3] * 13 + d[2] * 102 + d[1] * 25 + 110 + (Col2(d) \div 256)

Col4(d) == d[4] * 13 + d[3] * 102 + d[2] * 25 + 60 + (Col3(d) \div 256)

LcgStep(s) ==
  U32((Col4(Bytes(s)) % 256) * 256 + (Col3(Bytes(s)) % 256),
      (Col2(Bytes(s)) % 256) * 256 + (Col1(Bytes(s)) % 256))

\* C7: every draw sets the state to (state * 1664525 + 1013904223) mod 2^32 and
\* returns it over 2^32; draw n advances from the state draw n-1 left; from 42 the
\* first draw gives 1083814273 and the second is computed from 1083814273 (it
\* gives 378494188).
C7_GeneratorRule ==
  /\ \A n \in 1..Len(keys) : keys[n] = LcgStep(IF n = 1 THEN seed ELSE keys[n - 1])
  /\ (seed = ToU32(42) /\ Len(keys) >= 1) => keys[1] = ToU32(1083814273)
  /\ (seed = ToU32(42) /\ Len(keys) >= 2) =>
       (keys[2] = LcgStep(ToU32(1083814273)) /\ keys[2] = ToU32(378494188))

\* the keys of a shuffle of at least two elements seeded with 42
C7_Witness == seed = ToU32(42) /\ Len(keys) >= 2 /\ keys[1] = ToU32(1083814273)

\* the column j of the assembled train numeric matrix
TrainColumn(o, j) == Arr([k \in 1..Len(o.Xtrain[1]) |-> o.Xtrain[1][k][j]])

\* C8: the median of every column of the assembled train numeric matrix is 0.
C8_ScalingCentering ==
  (out.status = "ok" /\ Len(out.Xtrain[1]) >= 1) =>
    \A j \in 1..Len(out.numStats) :
      MedianSorted(SortNum(TrainColumn(out, j))) = Num(0)

\* C9: the rows of the test partition are in ascending order of row index.
C9_TestNaturalOrder ==
  out.status = "ok" =>
    /\ \A a \in 1..Len(out.te) : \A b \in 1..Len(out.te) : a < b => out.te[a] < out.te[b]
    /\ out.ytest = Gather(out.yLog, out.te)

\* whether a column is absent from the rows
Absent(rs, h) == \A i \in 1..Len(rs) : h \notin DOMAIN rs[i]

\* C10: when the make or the price column is absent, or K exceeds the number of
\* training rows, the call ends in an error and returns no arrays.
C10_ConfigurationError ==
  (out.status # "none"
     /\ (Absent(rows, "make") \/ Absent(rows, "price") \/ K > Len(out.trIdx))) =>
    out.status = "error"

\* C11: a call of buildTabularTensors on non-empty rows sets schema.numInputDim, in
\* its one step on the schema, to the number of base numeric columns plus the
\* number of columns designated for target encoding; every row of both output
\* numeric matrices and numStats have this width, which is the width the model
\* builder reads; no other field of the schema is added, removed or changed.
C11_NumInputDim ==
  [][/\ DOMAIN schema' = DOMAIN schema \cup {"numInputDim"}
     /\ schema'.numInputDim = Len(schema.numCols) + Len(encCols)
     /\ numDim(schema') = Len(schema.numCols) + Len(encCols)
     /\ \A k \in DOMAIN schema \ {"numInputDim"} : schema'[k] = schema[k]
     /\ out'.status = "ok" =>
          /\ \A r \in 1..Len(out'.Xtrain[1]) :
               Len(out'.Xtrain[1][r]) = schema'.numInputDim
          /\ \A r \in 1..Len(out'.Xtest[1]) :
               Len(out'.Xtest[1][r]) = schema'.numInputDim
          /\ Len(out'.numStats) = schema'.numInputDim]_vars

\* a first call, on a schema that holds further fields, that returned rows in both
\* numeric matrices
C11_Witness ==
  /\ out.status = "ok" /\ prev.status = "none"
  /\ "__seeds" \in DOMAIN schema
  /\ schema.numInputDim = 8
  /\ Len(out.Xtrain[1]) >= 1 /\ Len(out.Xtest[1]) >= 1

\* the training rows with a finite raw target, and the mean of their raw targets
FiniteTrain(o) == {j \in Range(o.trIdx) : isNumeric(Get(o.rows[j], "price"))}

MeanOfTrain(o) ==
  Div(SumNum(Gather(o.pricesRaw, FilterSeq(o.trIdx, FiniteTrain(o)))),
      Num(Cardinality(FiniteTrain(o))))

\* the map row i reads for a column, and the rows that map is fit on
MapRead(o, i, col) ==
  IF i \in Range(o.trIdx) THEN o.encMapsByFold[col][o.foldOf[i]] ELSE o.fullMaps[col]

FitRows(o, i) ==
  IF i \in Range(o.trIdx) THEN {j \in FiniteTrain(o) : o.foldOf[j] # o.foldOf[i]}
  ELSE FiniteTrain(o)

\* whether a row the map of i is fit on has the category of i in the column
Fitted(o, i, col) ==
  \E j \in FitRows(o, i) : CatKey(Get(o.rows[j], col)) = CatKey(Get(o.rows[i], col))

\* C12: a training row of fold f reads a column's fold-f map and a test row the
\* full-training map; every map has an unknown entry, equal to the mean of the
\* finite raw training targets when there is one; a row's category has an entry
\* in the map it reads exactly if a row the map is fit on has that category, and
\* the row receives that entry, and the unknown entry if there is none.  (Category
\* values are not the sentinels themselves.)
C12_EncodedLookup ==
  out.status # "none" =>
    /\ \A e \in 1..Len(encCols) :
         /\ \A f \in 0..(K - 1) :
              /\ "__UNK__" \in DOMAIN out.encMapsByFold[encCols[e]][f]
              /\ FiniteTrain(out) # {} =>
                   out.encMapsByFold[encCols[e]][f]["__UNK__"] = MeanOfTrain(out)
         /\ "__UNK__" \in DOMAIN out.fullMaps[encCols[e]]
         /\ FiniteTrain(out) # {} => out.fullMaps[encCols[e]]["__UNK__"] = MeanOfTrain(out)
    /\ \A i \in 1..Len(rows) : \A e \in 1..Len(encCols) :
         /\ Fitted(out, i, encCols[e])
              <=> CatKey(Get(rows[i], encCols[e])) \in DOMAIN MapRead(out, i, encCols[e])
         /\ Fitted(out, i, encCols[e]) =>
              EncodedOf(out, i)[e]
                = MapRead(out, i, encCols[e])[CatKey(Get(rows[i], encCols[e]))]
         /\ ~Fitted(out, i, encCols[e]) =>
              /\ EncodedOf(out, i)[e] = MapRead(out, i, encCols[e])["__UNK__"]
              /\ FiniteTrain(out) # {} => EncodedOf(out, i)[e] = MeanOfTrain(out)

\* a training row whose make has no entry in its fold's map, a training row whose
\* category has one, and a test row whose make has an entry in the full map that
\* differs from the mean
C12_Witness ==
  /\ out.status = "ok"
  /\ \E i \in Range(out.trIdx) : ~Fitted(out, i, "make")
  /\ \E i \in Range(out.trIdx) : \E e \in 1..Len(encCols) : Fitted(out, i, encCols[e])
  /\ \E t \in Range(out.teIdx) :
       /\ Fitted(out, t, "make")
       /\ EncodedOf(out, t)[1] # MeanOfTrain(out)

\* C13: at most one training run is in progress at any time, and while a run is in
\* progress (from the Train click until its fitModel resolves) the Train button is
\* disabled, whatever file, Train, Evaluate, Save and Load events come between.
C13_SingleTrainingRun ==
  /\ Cardinality(fitting) <= 1
  /\ fitting # {} => trainBtnDisabled

====
